---- MODULE Spec2Model ----
(***************************************************************************)
(* Booking lifecycle (api/booking.py) and the Scheduled Trips virtual      *)
(* doctype (doctype/scheduled_trips/scheduled_trips.py) of easytix_booking. *)
(*                                                                         *)
(* store   the committed rows of tabBooking, keyed by document name        *)
(* req     per request worker: the whitelisted call it is inside of, with  *)
(*         the document it loaded (frappe.get_doc) and has not yet saved   *)
(* resp    what the step just taken returned to its caller (NoResp when    *)
(*         the step returned nothing)                                      *)
(* args    the arguments of the call that resp answers                     *)
(* finalized  per booking, how many finalize calls returned success        *)
(***************************************************************************)
EXTENDS Integers, Sequences, FiniteSets, TLC

VARIABLES store, req, resp, args, finalized

vars == <<store, req, resp, args, finalized>>

(***************************************************************************)
(* Bounds of the model.                                                    *)
(***************************************************************************)
MaxBookings == 2
MaxItems == 2
MaxParts == 2
MaxFilters == 2

Workers == {1, 2}

Names == 1..MaxBookings

(***************************************************************************)
(* Python values.                                                          *)
(***************************************************************************)
\* An optional argument: None, or a list.
None == [none |-> TRUE]

Some(s) == [none |-> FALSE, val |-> s]

\* `x or []`
OrEmpty(x) == IF x.none THEN <<>> ELSE x.val

\* bool(x) taken for `x is not None`
TruthyList_NotNone(x) == ~x.none

\* bool(x) of an optional list
TruthyList(x) == ~x.none /\ Len(x.val) > 0

\* bool(s) of a string
TruthyStr(s) == s # ""

SeqsUpTo(S, n) == UNION {[1..k -> S] : k \in 0..n}

\* The lists of at most n members of S that name none twice
Rosters(S, n) ==
    {s \in SeqsUpTo(S, n) : \A i, j \in 1..Len(s) : s[i] = s[j] => i = j}

RECURSIVE SumSeq(_)
SumSeq(s) == IF s = <<>> THEN 0 ELSE Head(s) + SumSeq(Tail(s))

(***************************************************************************)
(* The catalog the bookings refer to: tabPackage and tabResource.  A       *)
(* package is referred to by its name; its package_name is a display name  *)
(* that other packages may carry too.                                      *)
(***************************************************************************)
tabPackage ==
    [P1 |-> [package_name |-> "Reef", resource |-> "R1"],
     P2 |-> [package_name |-> "Dive", resource |-> "R2"],
     P3 |-> [package_name |-> "Reef", resource |-> "R1"]]

tabResource ==
    [R1 |-> [resource_name |-> "Boat", capacity |-> 3],
     R2 |-> [resource_name |-> "Van", capacity |-> 2]]

\* frappe.utils.getdate on the strings the model passes: a date, or a raise.
BadDate == <<0, 0, 0>>

getdate(s) ==
    CASE s = "2024-06-01" -> <<2024, 6, 1>>
      [] s = "2024-06-02" -> <<2024, 6, 2>>
      [] OTHER -> BadDate

\* frappe.utils.validate_email_address: the address, or "" when it is not one.
validate_email_address(s) == IF s = "ann@x.io" THEN s ELSE ""

(***************************************************************************)
(* Responses: the envelope {status, data, message}. kind stands for the    *)
(* message: which raise produced the error.                                *)
(***************************************************************************)
EmptyData == [empty |-> TRUE]

NoResp == [op |-> "none", status |-> "", kind |-> "", name |-> 0, data |-> EmptyData]

Success(op, n, d) == [op |-> op, status |-> "success", kind |-> "", name |-> n, data |-> d]

Failure(op, n, k) == [op |-> op, status |-> "error", kind |-> k, name |-> n, data |-> EmptyData]

(***************************************************************************)
(* The database transaction of one request: db is the request's view, the  *)
(* committed rows plus its own writes.                                     *)
(***************************************************************************)
\* frappe.db.commit()
db_commit(committed, db) == db

\* a rollback that keeps the writes of the transaction
db_rollback_Keep(committed, db) == db

\* frappe.db.rollback()
db_rollback(committed, db) == committed

\* The Booking controller's derived field: quantity is the total of the
\* variation_quantity rows (the Quantity Ledger's total()).
total(variation_quantity) ==
    SumSeq([i \in 1..Len(variation_quantity) |-> variation_quantity[i].quantity])

\* Document.insert: a new row under the next name of the series. A failure
\* of the write leaves the parent row without its child rows in the
\* transaction.
doc_insert(db, doc, fault) ==
    LET n == Cardinality(DOMAIN db) + 1
        row == [doc EXCEPT !.quantity = total(doc.variation_quantity)]
    IN  IF fault = "write"
        THEN [ok |-> FALSE, name |-> n, kind |-> "StorageFailure",
              db |-> db @@ (n :> [row EXCEPT !.participants = <<>>,
                                             !.special_requests = <<>>,
                                             !.variation_quantity = <<>>])]
        ELSE [ok |-> TRUE, name |-> n, kind |-> "", db |-> db @@ (n :> row)]

\* a save that skips check_if_latest
doc_save_NoCheck(db, n, doc, latest, fault) ==
    IF fault = "write"
    THEN [ok |-> FALSE, kind |-> "StorageFailure",
          db |-> [db EXCEPT ![n] = [doc EXCEPT !.participants = db[n].participants]]]
    ELSE [ok |-> TRUE, kind |-> "", db |-> [db EXCEPT ![n] = doc]]

\* Document.save of a loaded document. check_if_latest reads the row's
\* modified (a locking read of the committed row) and raises
\* TimestampMismatchError unless it is the modified the document was loaded
\* with; every committed write of a row gives it a new modified, so the loaded
\* copy passes exactly when no write of the row was committed since the
\* load: latest. Then the whole document is written; a failure of the write
\* leaves the parent row written and the child rows not.
doc_save(db, n, doc, latest, fault) ==
    IF ~latest
    THEN [ok |-> FALSE, kind |-> "TimestampMismatch", db |-> db]
    ELSE IF fault = "write"
    THEN [ok |-> FALSE, kind |-> "StorageFailure",
          db |-> [db EXCEPT ![n] = [doc EXCEPT !.participants = db[n].participants]]]
    ELSE [ok |-> TRUE, kind |-> "", db |-> [db EXCEPT ![n] = doc]]

\* A child row of the participants table: {"doctype": "Booking Participant", **p}
Participant(p) == [doctype |-> "Booking Participant", full_name |-> p]

\* frappe.get_meta("Booking Participant"): the declared, non-layout fields
\* of a participant row, projected out of it.
declared_fields(row) == [full_name |-> row.full_name]

(***************************************************************************)
(* create (booking.py 7-87)                                                *)
(***************************************************************************)
all_required(a) ==
    /\ TruthyStr(a.booking_name)
    /\ TruthyStr(a.email)
    /\ TruthyStr(a.contact_number)
    /\ TruthyStr(a.package)
    /\ TruthyStr(a.booking_date)

create_data(n, b) ==
    [name |-> n, booking_name |-> b.booking_name, email |-> b.email,
     contact_number |-> b.contact_number, package |-> b.package,
     booking_date |-> b.booking_date, quantity |-> b.quantity,
     status |-> b.status, participants |-> b.participants,
     special_requests |-> b.special_requests,
     variation_quantity |-> b.variation_quantity]

create(db, a, fault) ==
    IF ~all_required(a)
    THEN [db |-> db_rollback(db, db), resp |-> Failure("create", 0, "InvalidInput")]
    ELSE IF a.package \notin DOMAIN tabPackage
    THEN [db |-> db_rollback(db, db), resp |-> Failure("create", 0, "NotFound")]
    ELSE IF getdate(a.booking_date) = BadDate
    THEN [db |-> db_rollback(db, db), resp |-> Failure("create", 0, "InvalidInput")]
    ELSE IF ~TruthyList(a.variation_quantity)
    THEN [db |-> db_rollback(db, db), resp |-> Failure("create", 0, "InvalidInput")]
    ELSE IF ~TruthyStr(validate_email_address(a.email))
    THEN [db |-> db_rollback(db, db), resp |-> Failure("create", 0, "InvalidInput")]
    ELSE LET participants == OrEmpty(a.participants)
             booking ==
                [booking_name |-> a.booking_name,
                 email |-> a.email,
                 contact_number |-> a.contact_number,
                 package |-> a.package,
                 booking_date |-> getdate(a.booking_date),
                 status |-> "Created",
                 participants |-> [i \in 1..Len(participants) |-> Participant(participants[i])],
                 special_requests |-> OrEmpty(a.special_requests),
                 variation_quantity |-> a.variation_quantity.val,
                 quantity |-> 0]
             r == doc_insert(db, booking, fault)
         IN  IF r.ok
             THEN [db |-> db_commit(db, r.db),
                   resp |-> Success("create", r.name, create_data(r.name, r.db[r.name]))]
             ELSE [db |-> db_rollback(db, r.db),
                   resp |-> Failure("create", 0, r.kind)]

(***************************************************************************)
(* finalize (booking.py 90-132): the load and the check of the loaded      *)
(* document, then the write.                                               *)
(***************************************************************************)
\* finalize without its check of the status
finalize_load_NoCheck(db, n) ==
    IF n \notin DOMAIN db
    THEN [ok |-> FALSE, resp |-> Failure("finalize", n, "NotFound")]
    ELSE [ok |-> TRUE, doc |-> db[n]]

finalize_load(db, n) ==
    IF n \notin DOMAIN db
    THEN [ok |-> FALSE, resp |-> Failure("finalize", n, "NotFound")]
    ELSE IF db[n].status # "Created"
    THEN [ok |-> FALSE, resp |-> Failure("finalize", n, "InvalidState")]
    ELSE [ok |-> TRUE, doc |-> db[n]]

finalize_save(db, n, doc, latest, fault) ==
    LET booking == [doc EXCEPT !.status = "Pending"]
        r == doc_save(db, n, booking, latest, fault)
    IN  IF r.ok
        THEN [db |-> db_commit(db, r.db), wrote |-> TRUE,
              resp |-> Success("finalize", n,
                               [name |-> n, booking_name |-> booking.booking_name,
                                status |-> booking.status])]
        ELSE [db |-> db_rollback(db, r.db), wrote |-> FALSE,
              resp |-> Failure("finalize", n, r.kind)]

\* One call with no other request in between.
finalize(db, n, fault) ==
    LET l == finalize_load(db, n)
    IN  IF l.ok
        THEN finalize_save(db, n, l.doc, TRUE, fault)
        ELSE [db |-> db_rollback(db, db), wrote |-> FALSE, resp |-> l.resp]

(***************************************************************************)
(* update_manifest (booking.py 135-183)                                    *)
(***************************************************************************)
update_manifest_load(db, n, participants) ==
    IF n \notin DOMAIN db
    THEN [ok |-> FALSE, resp |-> Failure("update_manifest", n, "NotFound")]
    ELSE IF participants.none
    THEN [ok |-> FALSE, resp |-> Failure("update_manifest", n, "TypeError")]
    ELSE IF Len(participants.val) > db[n].quantity
    THEN [ok |-> FALSE, resp |-> Failure("update_manifest", n, "InvalidInput")]
    ELSE [ok |-> TRUE, doc |-> db[n]]

\* the appends without booking.set('participants', [])
set_participants_Append(doc, participants) ==
    [doc EXCEPT !.participants =
        @ \o [i \in 1..Len(participants) |-> Participant(participants[i])]]

\* booking.set('participants', []) and one append per participant
set_participants(doc, participants) ==
    [doc EXCEPT !.participants =
        [i \in 1..Len(participants) |-> Participant(participants[i])]]

update_manifest_save(db, n, doc, participants, latest, fault) ==
    LET booking == set_participants(doc, participants.val)
        r == doc_save(db, n, booking, latest, fault)
    IN  IF ~r.ok
        THEN [db |-> db_rollback(db, r.db), wrote |-> FALSE,
              resp |-> Failure("update_manifest", n, r.kind)]
        ELSE LET committed == db_commit(db, r.db)
             IN  IF fault = "meta"
                 THEN [db |-> db_rollback(committed, committed), wrote |-> TRUE,
                       resp |-> Failure("update_manifest", n, "StorageFailure")]
                 ELSE [db |-> committed, wrote |-> TRUE,
                       resp |-> Success("update_manifest", n,
                                  [name |-> n, booking_name |-> booking.booking_name,
                                   status |-> booking.status,
                                   participants |->
                                      [i \in 1..Len(booking.participants) |->
                                          declared_fields(booking.participants[i])]])]

update_manifest(db, n, participants, fault) ==
    LET l == update_manifest_load(db, n, participants)
    IN  IF l.ok
        THEN update_manifest_save(db, n, l.doc, participants, TRUE, fault)
        ELSE [db |-> db_rollback(db, db), wrote |-> FALSE, resp |-> l.resp]

(***************************************************************************)
(* The approval workflow outside this code: Pending to Approved or         *)
(* Rejected.                                                               *)
(***************************************************************************)
set_status(db, n, status) == [db EXCEPT ![n].status = status]

(***************************************************************************)
(* Scheduled Trips (scheduled_trips.py): the read side.                    *)
(***************************************************************************)
\* What a function returns that is not an envelope, and what it raises
Returned(op, n, d) == [op |-> op, status |-> "returned", kind |-> "", name |-> n, data |-> d]

Raised(op, n, k) == [op |-> op, status |-> "raised", kind |-> k, name |-> n, data |-> EmptyData]

\* A Python dict of filters: the value of each key that callers use, or
\* Absent for a key the dict does not hold
FilterKeys == {"package", "booking_date", "status", "quantity"}

Absent == "(absent)"

EmptyDict == [k \in FilterKeys |-> Absent]

DictSet(d, k, v) == [d EXCEPT ![k] = v]

DictKeys(d) == {k \in FilterKeys : d[k] # Absent}

\* bool(d.get(k))
DictTruthy(d, k) == d[k] # Absent /\ d[k] # ""

\* str(date)
date_str(d) ==
    CASE d = <<2024, 6, 1>> -> "2024-06-01"
      [] d = <<2024, 6, 2>> -> "2024-06-02"
      [] OTHER -> ""

\* ORDER BY on dates and on strings (the collation of the names in use)
DateLess(d, e) ==
    \/ d[1] < e[1]
    \/ d[1] = e[1] /\ d[2] < e[2]
    \/ d[1] = e[1] /\ d[2] = e[2] /\ d[3] < e[3]

Collation == <<"Dive", "Reef">>

StrLess(a, b) ==
    \E i, j \in 1..Len(Collation) : Collation[i] = a /\ Collation[j] = b /\ i < j

RECURSIVE SumQuantity(_, _)
SumQuantity(db, S) ==
    IF S = {} THEN 0
    ELSE LET n == CHOOSE x \in S : TRUE
         IN  db[n].quantity + SumQuantity(db, S \ {n})

\* The row of S the database reads first
First(S, scan) == CHOOSE n \in S : \A m \in S : scan[n] <= scan[m]

RECURSIVE simple_filters_to_dict(_)
simple_filters_to_dict(filters) ==
    IF filters = <<>> THEN EmptyDict
    ELSE LET out == simple_filters_to_dict(SubSeq(filters, 1, Len(filters) - 1))
             f == filters[Len(filters)]
         IN  IF Len(f) = 4 /\ f[3] = "="
             THEN DictSet(out, f[2], f[4])
             ELSE out

\* isinstance(filters, list): the list is converted, a dict is taken as it is
normalize(filters) ==
    IF filters.shape = "list" THEN simple_filters_to_dict(filters.list) ELSE filters.dict

\* WHERE b.status = 'Approved' AND the conditions of get_list
list_where_AnyStatus(b, filters) ==
    /\ DictTruthy(filters, "package") => b.package = filters["package"]
    /\ DictTruthy(filters, "booking_date") => b.booking_date = getdate(filters["booking_date"])

list_where(b, filters) ==
    /\ b.status = "Approved"
    /\ DictTruthy(filters, "package") => b.package = filters["package"]
    /\ DictTruthy(filters, "booking_date") => b.booking_date = getdate(filters["booking_date"])

\* INNER JOIN tabPackage, INNER JOIN tabResource
joined(b) ==
    /\ b.package \in DOMAIN tabPackage
    /\ tabPackage[b.package].resource \in DOMAIN tabResource

\* One row of a GROUP BY b.package, b.booking_date: the columns that are not
\* grouped come from the row of the group the database reads first.
group_row(db, S, scan) ==
    LET b == db[First(S, scan)]
        p == tabPackage[b.package]
        r == tabResource[p.resource]
    IN  [name |-> First(S, scan),
         booking_date |-> b.booking_date,
         package |-> p.package_name,
         resource |-> p.resource,
         resource_name |-> r.resource_name,
         capacity |-> r.capacity,
         quantity |-> SumQuantity(db, S)]

\* ORDER BY b.booking_date ASC, p.package_name ASC; rows that tie come as read
RowLess(r, q, scan) ==
    \/ DateLess(r.booking_date, q.booking_date)
    \/ /\ r.booking_date = q.booking_date
       /\ \/ StrLess(r.package, q.package)
          \/ r.package = q.package /\ scan[r.name] < scan[q.name]

RECURSIVE OrderBy(_, _)
OrderBy(rows, scan) ==
    IF rows = {} THEN <<>>
    ELSE LET r == CHOOSE x \in rows : \A y \in rows \ {x} : RowLess(x, y, scan)
         IN  <<r>> \o OrderBy(rows \ {r}, scan)

\* LIMIT n OFFSET m
Limit(rows, n, m) ==
    IF m >= Len(rows) THEN <<>>
    ELSE SubSeq(rows, m + 1, IF m + n < Len(rows) THEN m + n ELSE Len(rows))

with_id(row) ==
    [name |-> row.name, booking_date |-> row.booking_date, package |-> row.package,
     resource |-> row.resource, resource_name |-> row.resource_name,
     capacity |-> row.capacity, quantity |-> row.quantity,
     id |-> row.package \o "-" \o date_str(row.booking_date)]

DefaultStart == 0

DefaultPageLength == 20

get_list(db, a, scan) ==
    LET limit_start == IF a.limit_start.none THEN DefaultStart ELSE a.limit_start.val
        limit_page_length ==
            IF a.limit_page_length.none THEN DefaultPageLength ELSE a.limit_page_length.val
        filters == normalize(a.filters)
        matched == {n \in DOMAIN db : joined(db[n]) /\ list_where(db[n], filters)}
        keys == {<<db[n].package, db[n].booking_date>> : n \in matched}
        group(k) == {n \in matched : <<db[n].package, db[n].booking_date>> = k}
        results == Limit(OrderBy({group_row(db, group(k), scan) : k \in keys}, scan),
                         limit_page_length, limit_start)
    IN  [i \in 1..Len(results) |-> with_id(results[i])]

\* The numeral of a small number, as filters carry it
digit(q) == <<"0", "1", "2", "3", "4", "5", "6", "7", "8", "9">>[q + 1]

\* A filter of frappe.db.get_all on a field of Booking
field_is(b, k, v) ==
    CASE k = "package" -> b.package = v
      [] k = "booking_date" -> b.booking_date = getdate(v)
      [] k = "status" -> b.status = v
      [] k = "quantity" -> \E q \in 0..9 : digit(q) = v /\ b.quantity = q
      [] OTHER -> FALSE

get_count(db, a) ==
    LET user_filters == normalize(a.filters)
        filters == DictSet(user_filters, "status", "Approved")
        matched == {n \in DOMAIN db : \A k \in DictKeys(filters) : field_is(db[n], k, filters[k])}
    IN  Cardinality({<<db[n].package, db[n].booking_date>> : n \in matched})

\* frappe.db.get_all("Booking", filters of status, booking_date and package)
\* without the filter on status
bookings_of_AnyStatus(db, row_doc) ==
    {n \in DOMAIN db :
        /\ db[n].booking_date = row_doc.booking_date
        /\ db[n].package = row_doc.package}

\* the same with a filter on a field that is not of the key
bookings_of_LikeRepresentative(db, row_doc) ==
    {n \in DOMAIN db :
        /\ db[n].status = "Approved"
        /\ db[n].booking_date = row_doc.booking_date
        /\ db[n].package = row_doc.package
        /\ db[n].quantity = row_doc.quantity}

bookings_of(db, row_doc) ==
    {n \in DOMAIN db :
        /\ db[n].status = "Approved"
        /\ db[n].booking_date = row_doc.booking_date
        /\ db[n].package = row_doc.package}

\* The rows of a set, in the order the database reads them
RECURSIVE InOrder(_, _)
InOrder(S, scan) ==
    IF S = {} THEN <<>> ELSE <<First(S, scan)>> \o InOrder(S \ {First(S, scan)}, scan)

\* The child rows of the parents, each with the name of its parent
RECURSIVE children(_, _, _)
children(db, parents, field) ==
    IF parents = <<>> THEN <<>>
    ELSE LET n == Head(parents)
             rows == IF field = "participants" THEN db[n].participants
                     ELSE db[n].variation_quantity
         IN  [i \in 1..Len(rows) |-> [parent |-> n, row |-> rows[i]]]
             \o children(db, Tail(parents), field)

\* fields = variation, SUM(quantity); group_by = variation
RECURSIVE sum_by_variation(_)
sum_by_variation(rows) ==
    IF rows = <<>> THEN <<>>
    ELSE LET v == Head(rows).row.variation
             same == SelectSeq(rows, LAMBDA r : r.row.variation = v)
             rest == SelectSeq(rows, LAMBDA r : r.row.variation # v)
         IN  <<[variation |-> v,
                quantity |-> SumSeq([i \in 1..Len(same) |-> same[i].row.quantity])]>>
             \o sum_by_variation(rest)

\* item['idx'] = idx, from 1
enumerate(rows) == [i \in 1..Len(rows) |-> [idx |-> i, item |-> rows[i]]]

\* frappe.db.get_value("Booking", name) without the filter on status
get_value_AnyStatus(db, name) == name \in DOMAIN db

\* frappe.db.get_value("Booking", {status: Approved, name: name}) finds a row
get_value(db, name) == name \in DOMAIN db /\ db[name].status = "Approved"

load_from_db(db, name, scan) ==
    IF ~get_value(db, name)
    THEN Raised("load_from_db", name, "NotFound")
    ELSE LET row_doc == db[name]
         IN  IF row_doc.package \notin DOMAIN tabPackage
             THEN Raised("load_from_db", name, "DoesNotExist")
             ELSE IF tabPackage[row_doc.package].resource \notin DOMAIN tabResource
             THEN Raised("load_from_db", name, "DoesNotExist")
             ELSE LET package_doc == tabPackage[row_doc.package]
                      resource_doc == tabResource[package_doc.resource]
                      names == InOrder(bookings_of(db, row_doc), scan)
                      bookings_doc == [i \in 1..Len(names) |-> [name |-> names[i], doc |-> db[names[i]]]]
                      participants_doc == children(db, names, "participants")
                      variations_doc == sum_by_variation(children(db, names, "variation_quantity"))
                      total_quantity ==
                          SumSeq([i \in 1..Len(bookings_doc) |-> bookings_doc[i].doc.quantity])
                  IN  Returned("load_from_db", name,
                               [name |-> name,
                                booking_date |-> row_doc.booking_date,
                                package |-> row_doc.package,
                                capacity |-> resource_doc.capacity,
                                quantity |-> total_quantity,
                                bookings |-> enumerate(bookings_doc),
                                participants |-> enumerate(participants_doc),
                                variation_quantity |-> enumerate(variations_doc)])

(***************************************************************************)
(* Inputs.                                                                 *)
(***************************************************************************)
People == {"ann", "bob"}

Idle == [pc |-> "idle"]

\* A well-formed create call
GoodArgs ==
    [booking_name |-> "Trip", email |-> "ann@x.io", contact_number |-> "012",
     package |-> "P1", booking_date |-> "2024-06-01",
     variation_quantity |-> Some(<<[variation |-> "Adult", quantity |-> 1]>>),
     participants |-> None, special_requests |-> None]

\* Line-item lists of one variation: 1 Adult; 1 Adult, 2 Adult; ...
AdultItems == {[i \in 1..k |-> [variation |-> "Adult", quantity |-> i]] : k \in 1..MaxItems}

\* What the API's callers pass to create: well-formed calls, and calls in
\* which required arguments are empty, unknown or malformed.
CreateArgs ==
    {[GoodArgs EXCEPT !.variation_quantity = Some(v), !.participants = p] :
        v \in AdultItems, p \in {None} \cup {Some(s) : s \in Rosters(People, MaxParts)}}
    \cup {[GoodArgs EXCEPT !.special_requests = Some(<<"vegan">>)]}
    \cup {[GoodArgs EXCEPT !.booking_name = ""],
          [GoodArgs EXCEPT !.email = ""],
          [GoodArgs EXCEPT !.email = "ann"],
          [GoodArgs EXCEPT !.contact_number = ""]}
    \cup {[GoodArgs EXCEPT !.package = p, !.booking_date = d, !.variation_quantity = v] :
            p \in {"", "P1", "P9"}, d \in {"", "June", "2024-06-01"},
            v \in {None, Some(<<>>), GoodArgs.variation_quantity}}

\* The bookings made before trips are listed: two of one trip, one of
\* another package, one of another date, one of a package that shares its
\* display name with the first.
Item(v, q) == [variation |-> v, quantity |-> q]

TripArgs ==
    {[GoodArgs EXCEPT !.variation_quantity = Some(<<Item("Adult", 1)>>),
                      !.participants = Some(<<"ann">>)],
     [GoodArgs EXCEPT !.package = "P3"],
     [GoodArgs EXCEPT !.variation_quantity = Some(<<Item("Adult", 1), Item("Child", 2)>>)],
     [GoodArgs EXCEPT !.package = "P2", !.variation_quantity = Some(<<Item("Child", 2)>>)],
     [GoodArgs EXCEPT !.booking_date = "2024-06-02",
                      !.variation_quantity = Some(<<Item("Child", 1), Item("Child", 1)>>)]}

\* The filters callers pass: a dict, or a list of [doctype, field, operator, value]
DictFilters ==
    {[shape |-> "dict", dict |-> d] :
        d \in [package : {Absent, "P1"}, booking_date : {Absent, "2024-06-01"},
               status : {Absent, "Pending"}, quantity : {Absent}]
              \cup {DictSet(EmptyDict, "quantity", "1"), DictSet(EmptyDict, "package", "")}}

ListFilters ==
    {[shape |-> "list", list |-> s] :
        s \in SeqsUpTo({<<"Booking", "package", "=", "P1">>,
                        <<"Booking", "package", "=", "P2">>,
                        <<"Booking", "package", "!=", "P1">>,
                        <<"booking_date", "=", "2024-06-01">>}, MaxFilters)}

Pages == {[limit_start |-> None, limit_page_length |-> None],
          [limit_start |-> Some(0), limit_page_length |-> Some(1)],
          [limit_start |-> Some(1), limit_page_length |-> Some(1)]}

NoFilters == [shape |-> "dict", dict |-> EmptyDict]

\* Every filter without limits, and every page without filters
ListArgs ==
    {[filters |-> f, limit_start |-> None, limit_page_length |-> None] :
        f \in DictFilters \cup ListFilters}
    \cup {[filters |-> NoFilters, limit_start |-> p.limit_start,
           limit_page_length |-> p.limit_page_length] : p \in Pages}

CountArgs == {[filters |-> f] : f \in DictFilters \cup ListFilters}

\* The orders in which the database may read the stored rows
Scans(db) == {scan \in [DOMAIN db -> 1..Cardinality(DOMAIN db)] :
                \A n, m \in DOMAIN db : scan[n] = scan[m] => n = m}

ManifestArgs == {None} \cup {Some(s) : s \in Rosters(People, MaxParts)}

(***************************************************************************)
(* The state machine.                                                      *)
(***************************************************************************)
Init ==
    /\ store = <<>>
    /\ req = [w \in Workers |-> Idle]
    /\ resp = NoResp
    /\ args = None
    /\ finalized = [n \in Names |-> 0]

\* A committed write that leaves the row's modified as it was
Outdate_Never(r, n) == r

\* A write of row n was committed: the copies of it other requests hold are
\* no longer the latest.
Outdate(r, n) == IF r.pc # "idle" /\ r.name = n THEN [r EXCEPT !.latest = FALSE] ELSE r

Counted(r, n) ==
    IF r.op = "finalize" /\ r.status = "success"
    THEN [finalized EXCEPT ![n] = @ + 1]
    ELSE finalized

Create(w, a, fault) ==
    /\ req[w].pc = "idle"
    /\ Cardinality(DOMAIN store) < MaxBookings
    /\ LET r == create(store, a, fault)
       IN  /\ store' = r.db
           /\ resp' = r.resp
    /\ args' = a
    /\ UNCHANGED <<req, finalized>>

\* finalize, run to completion
Finalize(w, n, fault) ==
    /\ req[w].pc = "idle"
    /\ LET r == finalize(store, n, fault)
       IN  /\ store' = r.db
           /\ resp' = r.resp
           /\ finalized' = Counted(r.resp, n)
           /\ req' = IF r.wrote THEN [v \in Workers |-> Outdate(req[v], n)] ELSE req
    /\ args' = None

\* update_manifest, run to completion
UpdateManifest(w, n, participants, fault) ==
    /\ req[w].pc = "idle"
    /\ LET r == update_manifest(store, n, participants, fault)
       IN  /\ store' = r.db
           /\ resp' = r.resp
           /\ req' = IF r.wrote THEN [v \in Workers |-> Outdate(req[v], n)] ELSE req
    /\ args' = participants
    /\ UNCHANGED finalized

\* finalize up to its write (booking.py 99-104)
FinalizeLoad(w, n) ==
    /\ req[w].pc = "idle"
    /\ LET l == finalize_load(store, n)
       IN  IF l.ok
           THEN /\ req' = [req EXCEPT ![w] = [pc |-> "finalize", name |-> n, doc |-> l.doc,
                                              participants |-> None, latest |-> TRUE]]
                /\ resp' = NoResp
           ELSE /\ req' = req
                /\ resp' = l.resp
    /\ args' = None
    /\ UNCHANGED <<store, finalized>>

\* finalize from its write on (booking.py 107-132)
FinalizeSave(w, fault) ==
    /\ req[w].pc = "finalize"
    /\ LET n == req[w].name
           r == finalize_save(store, n, req[w].doc, req[w].latest, fault)
       IN  /\ store' = r.db
           /\ resp' = r.resp
           /\ finalized' = Counted(r.resp, n)
           /\ req' = [v \in Workers |->
                        IF v = w THEN Idle
                        ELSE IF r.wrote THEN Outdate(req[v], n) ELSE req[v]]
    /\ args' = None

\* update_manifest up to its write (booking.py 137-142)
UpdateManifestLoad(w, n, participants) ==
    /\ req[w].pc = "idle"
    /\ LET l == update_manifest_load(store, n, participants)
       IN  IF l.ok
           THEN /\ req' = [req EXCEPT ![w] = [pc |-> "update_manifest", name |-> n,
                                              doc |-> l.doc, participants |-> participants,
                                              latest |-> TRUE]]
                /\ resp' = NoResp
           ELSE /\ req' = req
                /\ resp' = l.resp
    /\ args' = IF update_manifest_load(store, n, participants).ok THEN None ELSE participants
    /\ UNCHANGED <<store, finalized>>

\* update_manifest from its write on (booking.py 144-183)
UpdateManifestSave(w, fault) ==
    /\ req[w].pc = "update_manifest"
    /\ LET n == req[w].name
           r == update_manifest_save(store, n, req[w].doc, req[w].participants,
                                     req[w].latest, fault)
       IN  /\ store' = r.db
           /\ resp' = r.resp
           /\ req' = [v \in Workers |->
                        IF v = w THEN Idle
                        ELSE IF r.wrote THEN Outdate(req[v], n) ELSE req[v]]
    /\ args' = req[w].participants
    /\ UNCHANGED finalized

\* The approval workflow decides a Pending booking.
Decide(n, status) ==
    /\ n \in DOMAIN store
    /\ store[n].status = "Pending"
    /\ store' = set_status(store, n, status)
    /\ req' = [v \in Workers |-> Outdate(req[v], n)]
    /\ resp' = NoResp
    /\ args' = None
    /\ UNCHANGED finalized

\* The API called by one client at a time.
Next ==
    \/ \E a \in CreateArgs, fault \in {"none", "write"} : Create(1, a, fault)
    \/ \E n \in Names, fault \in {"none", "write"} : Finalize(1, n, fault)
    \/ \E n \in Names, p \in ManifestArgs, fault \in {"none", "write", "meta"} :
            UpdateManifest(1, n, p, fault)
    \/ \E n \in Names, status \in {"Approved", "Rejected"} : Decide(n, status)

Spec == Init /\ [][Next]_vars

\* The rosters concurrent callers pass
ConcManifests == {Some(s) : s \in SeqsUpTo({"ann"}, 1)}

\* The API called by concurrent requests: the calls that load a document
\* and later save it take two steps, and other requests run in between.
NextConc ==
    \/ \E w \in Workers :
        \/ Create(w, GoodArgs, "none")
        \/ \E n \in Names : FinalizeLoad(w, n)
        \/ \E fault \in {"none", "write"} : FinalizeSave(w, fault)
        \/ \E n \in Names, p \in ConcManifests : UpdateManifestLoad(w, n, p)
        \/ \E fault \in {"none", "write", "meta"} : UpdateManifestSave(w, fault)
    \/ \E n \in Names, status \in {"Approved", "Rejected"} : Decide(n, status)

SpecConc == Init /\ [][NextConc]_vars

\* ScheduledTrips.get_list
ListTrips(a, scan) ==
    /\ resp' = Returned("get_list", 0, [rows |-> get_list(store, a, scan)])
    /\ args' = a
    /\ UNCHANGED <<store, req, finalized>>

\* ScheduledTrips.get_count
CountTrips(a) ==
    /\ resp' = Returned("get_count", 0, [count |-> get_count(store, a)])
    /\ args' = a
    /\ UNCHANGED <<store, req, finalized>>

\* ScheduledTrips.load_from_db of the document named n
LoadTrip(n, scan) ==
    /\ resp' = load_from_db(store, n, scan)
    /\ args' = None
    /\ UNCHANGED <<store, req, finalized>>

\* Bookings are made, finalized and decided, and the trips are read.
NextTrips ==
    \/ \E a \in TripArgs : Create(1, a, "none")
    \/ \E n \in Names : Finalize(1, n, "none")
    \/ \E n \in Names, status \in {"Approved", "Rejected"} : Decide(n, status)
    \/ \E a \in ListArgs, scan \in Scans(store) : ListTrips(a, scan)
    \/ \E a \in CountArgs : CountTrips(a)
    \/ \E n \in Names, scan \in Scans(store) : LoadTrip(n, scan)

SpecTrips == Init /\ [][NextTrips]_vars

(***************************************************************************)
(* The lifecycle claims, under Spec.                                       *)
(***************************************************************************)
Exists(n) == n \in DOMAIN store

\* The names passed as the participants of stored rows
FullNames(rows) == [i \in 1..Len(rows) |-> rows[i].full_name]

RECURSIVE QuantitySum(_, _)
QuantitySum(items, k) == IF k = 0 THEN 0 ELSE items[k].quantity + QuantitySum(items, k - 1)

\* C1: finalize succeeds only on a booking whose status is Created, sets it
\* to Pending, and succeeds at most once per booking; every finalize of a
\* booking that is not Created (so every one after the successful one) fails
\* with InvalidState and changes nothing; a finalize of a Created booking
\* fails only when the write fails.
C1_Step ==
    \A n \in Names :
        /\ finalized'[n] <= 1
        /\ (Exists(n) /\ store[n].status # "Created") =>
                (Exists(n)' /\ store'[n].status # "Created")
        /\ (resp'.op = "finalize" /\ resp'.name = n) =>
            IF ~Exists(n)
            THEN resp'.kind = "NotFound" /\ store' = store
            ELSE IF store[n].status # "Created"
            THEN resp'.kind = "InvalidState" /\ store' = store
            ELSE \/ /\ resp'.status = "success"
                    /\ store' = [store EXCEPT ![n].status = "Pending"]
                    /\ finalized[n] = 0
                    /\ finalized'[n] = 1
                 \/ /\ resp'.kind = "StorageFailure"
                    /\ store' = store
                    /\ finalized' = finalized

C1_FinalizeOnce == [][C1_Step]_vars

\* A second finalize of a finalized booking was refused.
C1_Witness ==
    /\ resp.op = "finalize"
    /\ resp.kind = "InvalidState"
    /\ finalized[resp.name] = 1
    /\ store[resp.name].status = "Pending"

\* C2: every stored booking has at most quantity participants.
C2_ParticipantsWithinQuantity ==
    \A n \in DOMAIN store : Len(store[n].participants) <= store[n].quantity

\* C3: update_manifest of an existing booking with more participants than
\* its quantity fails with InvalidInput and leaves the stored list as it
\* was; with at most quantity participants it succeeds, unless the storage
\* fails, and the stored list is then exactly the supplied one, whatever was
\* stored before.
C3_Step ==
    (resp'.op = "update_manifest" /\ Exists(resp'.name) /\ ~args'.none) =>
        LET n == resp'.name
            supplied == args'.val
        IN  IF Len(supplied) > store[n].quantity
            THEN /\ resp' = Failure("update_manifest", n, "InvalidInput")
                 /\ store' = store
            ELSE \/ /\ resp'.status = "success"
                    /\ FullNames(store'[n].participants) = supplied
                    /\ store' = [store EXCEPT ![n].participants = store'[n].participants]
                 \/ resp' = Failure("update_manifest", n, "StorageFailure")

C3_ManifestCeiling == [][C3_Step]_vars

\* A roster was stored, and a longer one than the quantity was then refused.
C3_Witness ==
    /\ resp = Failure("update_manifest", resp.name, "InvalidInput")
    /\ Exists(resp.name)
    /\ FullNames(store[resp.name].participants) = <<"bob">>
    /\ store[resp.name].quantity = 1

\* C5: a call that returns an error leaves the stored bookings as they were.
C5_NoPartialCommit == [][resp'.status = "error" => store' = store]_vars

\* C6: the preconditions of create
C6_Pre(a) ==
    /\ a.booking_name # "" /\ a.email # "" /\ a.contact_number # ""
    /\ a.package # "" /\ a.booking_date # ""
    /\ a.package \in {"P1", "P2"}
    /\ a.booking_date \in {"2024-06-01", "2024-06-02"}
    /\ a.email = "ann@x.io"
    /\ ~a.variation_quantity.none /\ a.variation_quantity.val # <<>>

\* C6: a create whose preconditions hold adds, unless the storage fails,
\* exactly one booking, Created, with the arguments as its fields and
\* participants and special requests empty when omitted; any other create
\* returns an error and the stored bookings, old and new, are as before.
C6_Step ==
    resp'.op = "create" =>
        LET a == args'
            n == resp'.name
        IN  \/ /\ C6_Pre(a)
               /\ resp'.status = "success"
               /\ n \notin DOMAIN store
               /\ DOMAIN store' = DOMAIN store \cup {n}
               /\ \A m \in DOMAIN store : store'[m] = store[m]
               /\ store'[n].status = "Created"
               /\ store'[n].booking_name = a.booking_name
               /\ store'[n].package = a.package
               /\ store'[n].variation_quantity = a.variation_quantity.val
               /\ FullNames(store'[n].participants) =
                      (IF a.participants.none THEN <<>> ELSE a.participants.val)
               /\ store'[n].special_requests =
                      (IF a.special_requests.none THEN <<>> ELSE a.special_requests.val)
            \/ /\ C6_Pre(a)
               /\ resp' = Failure("create", 0, "StorageFailure")
               /\ store' = store
            \/ /\ ~C6_Pre(a)
               /\ resp'.status = "error"
               /\ resp'.kind # "StorageFailure"
               /\ store' = store

C6_CreateAddsOne == [][C6_Step]_vars

\* A booking was created with participants and special requests omitted.
C6_Witness ==
    /\ resp.op = "create"
    /\ resp.status = "success"
    /\ store[resp.name].participants = <<>>
    /\ store[resp.name].special_requests = <<>>
    /\ Cardinality(DOMAIN store) = 2

\* Every stored quantity is the sum of the booking's line-item quantities.
C7_Quantity == \A n \in DOMAIN store :
    store[n].quantity = QuantitySum(store[n].variation_quantity, Len(store[n].variation_quantity))

\* C7 as claimed: the quantities are the sums, and a create with no line
\* items fails with InvalidInput.
C7_NoItems(a) == a.variation_quantity.none \/ a.variation_quantity.val = <<>>

C7_Original ==
    [][/\ C7_Quantity'
       /\ (resp'.op = "create" /\ C7_NoItems(args'))
              => resp' = Failure("create", 0, "InvalidInput")]_vars

\* C7: every stored booking's quantity is the sum of its line-item
\* quantities, in every state; a create with an empty or missing line-item
\* list fails and stores nothing, with InvalidInput unless its required
\* arguments are all given and name a package that does not exist (reported
\* first, as NotFound).
C7_Step ==
    /\ C7_Quantity'
    /\ (resp'.op = "create" /\ C7_NoItems(args')) =>
          /\ resp'.status = "error"
          /\ store' = store
          /\ resp'.kind =
                IF /\ args'.booking_name # "" /\ args'.email # ""
                   /\ args'.contact_number # "" /\ args'.booking_date # ""
                   /\ args'.package \notin {"", "P1", "P2"}
                THEN "NotFound" ELSE "InvalidInput"

C7_QuantityDerivation == [][C7_Step]_vars

\* A booking of two line items, 1 and 2, is stored with quantity 3.
C7_Witness ==
    \E n \in DOMAIN store :
        /\ Len(store[n].variation_quantity) = 2
        /\ store[n].quantity = 3
        /\ store[n].status = "Approved"

(***************************************************************************)
(* The concurrency claims, under SpecConc.                                 *)
(***************************************************************************)
\* C4 as claimed: of the finalize calls on one booking at most one returns
\* success, and every one that returns after it fails with InvalidState.
C4_Original ==
    [][\A n \in Names :
          /\ finalized'[n] <= 1
          /\ (resp'.op = "finalize" /\ resp'.name = n /\ finalized[n] = 1) =>
                resp' = Failure("finalize", n, "InvalidState")]_vars

\* C4: of the finalize calls on one booking, however their loads and saves
\* interleave, at most one returns success, and the booking goes from
\* Created to Pending once; every finalize that returns after the successful
\* one fails and changes nothing: with InvalidState when it loaded the
\* booking after the commit, and with the save's timestamp mismatch when it
\* had loaded it before.
C4_Step ==
    \A n \in Names :
        /\ finalized'[n] <= 1
        /\ (Exists(n) /\ store[n].status # "Created") =>
                store'[n].status # "Created"
        /\ (resp'.op = "finalize" /\ resp'.name = n /\ resp'.status = "success") =>
                /\ store[n].status = "Created"
                /\ store'[n].status = "Pending"
                /\ finalized[n] = 0
        /\ (resp'.op = "finalize" /\ resp'.name = n /\ finalized[n] = 1) =>
                /\ resp'.status = "error"
                /\ store' = store
                /\ resp'.kind = IF \E w \in Workers : req[w].pc = "finalize" /\ req'[w].pc = "idle"
                                THEN "TimestampMismatch" ELSE "InvalidState"

C4_OneFinalizeWins == [][C4_Step]_vars

\* Two requests had loaded the Created booking; one finalized it, and the
\* other's save was then refused.
C4_Witness ==
    /\ resp = Failure("finalize", resp.name, "TimestampMismatch")
    /\ finalized[resp.name] = 1
    /\ store[resp.name].status = "Pending"

(***************************************************************************)
(* The Scheduled Trips claims, under SpecTrips.  A read leaves the store   *)
(* alone and every step replaces resp and args, so a response of a read is *)
(* always next to the store it was computed from.                          *)
(***************************************************************************)
\* The grouping key of a stored booking
KeyOf(n) == <<store[n].package, store[n].booking_date>>

Approved(n) == store[n].status = "Approved"

\* The Approved bookings with the key k
ApprovedOf(k) == {n \in DOMAIN store : Approved(n) /\ KeyOf(n) = k}

Variations == {"Adult", "Child"}

\* The quantity of variation v in the first k line items
RECURSIVE VariationSum(_, _, _)
VariationSum(items, v, k) ==
    IF k = 0 THEN 0
    ELSE (IF items[k].variation = v THEN items[k].quantity ELSE 0) + VariationSum(items, v, k - 1)

\* The quantity of variation v in the line items of the bookings G
RECURSIVE GroupVariationSum(_, _)
GroupVariationSum(G, v) ==
    IF G = {} THEN 0
    ELSE LET n == CHOOSE x \in G : TRUE
         IN  VariationSum(store[n].variation_quantity, v, Len(store[n].variation_quantity))
             + GroupVariationSum(G \ {n}, v)

HasVariation(G, v) ==
    \E n \in G : \E i \in 1..Len(store[n].variation_quantity) :
        store[n].variation_quantity[i].variation = v

\* C8: a trip loaded from an Approved representative reports as quantity the
\* sum of the quantities of the Approved bookings with the representative's
\* (package, date), and as variation totals one entry per variation that
\* these bookings' line items hold, with the sum of the line items of that
\* variation; bookings of the group in another status add to neither.
C8_AggregationCorrect ==
    (resp.op = "load_from_db" /\ resp.status = "returned") =>
        LET G == ApprovedOf(KeyOf(resp.name))
            vq == resp.data.variation_quantity
        IN  /\ resp.data.quantity = SumQuantity(store, G)
            /\ \A v \in Variations :
                LET e == {i \in 1..Len(vq) : vq[i].item.variation = v}
                IN  IF HasVariation(G, v)
                    THEN /\ Cardinality(e) = 1
                         /\ \A i \in e : vq[i].item.quantity = GroupVariationSum(G, v)
                    ELSE e = {}
            /\ \A i \in 1..Len(vq) : vq[i].item.variation \in Variations

\* Two Approved bookings of one trip, of 1 Adult and of 1 Adult and 2 Child,
\* are loaded as a trip of quantity 4 with 2 Adult and 2 Child.
C8_Witness ==
    /\ resp.op = "load_from_db"
    /\ resp.status = "returned"
    /\ Cardinality(ApprovedOf(KeyOf(resp.name))) = 2
    /\ resp.data.quantity = 4
    /\ Len(resp.data.variation_quantity) = 2
    /\ \A i \in 1..2 : resp.data.variation_quantity[i].item.quantity = 2

\* The Approved bookings that match the package and booking_date that the
\* normalized filters give
Matching(filters) ==
    LET f == normalize(filters)
    IN  {n \in DOMAIN store :
            /\ Approved(n)
            /\ DictTruthy(f, "package") => store[n].package = f["package"]
            /\ DictTruthy(f, "booking_date") => store[n].booking_date = getdate(f["booking_date"])}

Unpaginated(a) == a.limit_start.none /\ a.limit_page_length.none

\* The grouping key of a listed row: that of the booking that names the row
RowKey(row) == <<store[row.name].package, row.booking_date>>

\* C9: listTrips without pagination returns exactly one row for each
\* (package, booking_date) that an Approved booking matching the filters
\* has, and no other row; the quantity of a row is the sum of the quantities
\* of the Approved bookings of its key, so that bookings that are Created,
\* Pending or Rejected make no row and add to none.
C9_OneRowPerApprovedGroup ==
    (resp.op = "get_list" /\ Unpaginated(args)) =>
        LET rows == resp.data.rows
            keys == {KeyOf(n) : n \in Matching(args.filters)}
        IN  /\ \A i \in 1..Len(rows) : rows[i].name \in DOMAIN store /\ RowKey(rows[i]) \in keys
            /\ \A k \in keys : Cardinality({i \in 1..Len(rows) : RowKey(rows[i]) = k}) = 1
            /\ \A i \in 1..Len(rows) :
                rows[i].quantity = SumQuantity(store, ApprovedOf(RowKey(rows[i])))

\* A filtered list of one row, of a trip that has an Approved booking and a
\* booking in another status: the row carries the Approved booking's quantity.
C9_Witness ==
    /\ resp.op = "get_list"
    /\ Unpaginated(args)
    /\ DictTruthy(normalize(args.filters), "package")
    /\ Len(resp.data.rows) = 1
    /\ \E n, m \in DOMAIN store :
        /\ Approved(n)
        /\ ~Approved(m)
        /\ KeyOf(n) = KeyOf(m)
        /\ resp.data.rows[1].name = n
        /\ resp.data.rows[1].quantity = store[n].quantity

\* C10: countTrips returns the number of distinct (package, booking_date)
\* among the Approved bookings that match the package and booking_date
\* filters, whatever other keys and whatever status the filters carry: the
\* number of rows listTrips returns for the same filters over all pages.
C10_CountIsGroups ==
    resp.op = "get_count" =>
        /\ resp.data.count = Cardinality({KeyOf(n) : n \in Matching(args.filters)})
        /\ \A scan \in Scans(store) :
            resp.data.count =
                Len(get_list(store, [filters |-> args.filters, limit_start |-> None,
                                     limit_page_length |-> None], scan))

\* The keys of the rows of a page
PageKeys(rows) == {RowKey(rows[i]) : i \in 1..Len(rows)}

\* r does not come after q in the order of (booking_date, package name)
NotAfter(r, q) ==
    \/ DateLess(r.booking_date, q.booking_date)
    \/ r.booking_date = q.booking_date /\ ~StrLess(q.package, r.package)

\* The limits a call works with
StartOf(a) == IF a.limit_start.none THEN 0 ELSE a.limit_start.val

LengthOf(a) == IF a.limit_page_length.none THEN 20 ELSE a.limit_page_length.val

\* A page of one trip followed by the next page of one trip, same filters
NextPage(a, b) ==
    /\ a.filters = b.filters
    /\ ~a.limit_page_length.none /\ ~b.limit_page_length.none
    /\ a.limit_page_length.val = b.limit_page_length.val
    /\ StartOf(a) = 0
    /\ StartOf(b) = LengthOf(a)

\* C11: listTrips returns its rows in the order of (booking_date, package
\* name), at most limit_page_length of them (20 when omitted) after skipping
\* limit_start (0 when omitted); the first page and the page that follows
\* it, read one after the other from an unchanged store, hold every trip once:
\* none in both, none in neither.
C11_PagesPartition ==
    [][(resp.op = "get_list" /\ resp'.op = "get_list" /\ NextPage(args, args')) =>
        LET first == resp.data.rows
            second == resp'.data.rows
            all == {KeyOf(n) : n \in Matching(args.filters)}
        IN  /\ \A i, j \in 1..Len(second) : i < j => NotAfter(second[i], second[j])
            /\ Len(second) <= LengthOf(args')
            /\ Cardinality(all) <= StartOf(args') => second = <<>>
            /\ PageKeys(first) \cap PageKeys(second) = {}
            /\ Cardinality(all) <= 2 * LengthOf(args) =>
                    PageKeys(first) \cup PageKeys(second) = all]_vars

\* C12: every operation answers a failure with the error envelope (status
\* error, empty data) and lets none escape: no response is a raised
\* exception, also when the booking, the trip's representative, its package
\* or its resource is missing.
C12_NoFailureEscapes ==
    resp.status # "raised"

\* C13: the Approved bookings of a (package, booking_date) never hold more
\* in total than the capacity of the package's resource.
C13_WithinCapacity ==
    \A n \in DOMAIN store :
        Approved(n) =>
            SumQuantity(store, ApprovedOf(KeyOf(n)))
                <= tabResource[tabPackage[store[n].package].resource].capacity

\* C14: the participants of a Rejected booking never change.
C14_RejectedRosterFrozen ==
    [][\A n \in DOMAIN store :
        store[n].status = "Rejected" =>
            store'[n].participants = store[n].participants]_vars

\* C15: loadTrip returns a trip only for the name of a stored booking whose
\* status is Approved; for a name that no booking has, and for a booking that
\* is Created, Pending or Rejected, it fails with NotFound, also when
\* Approved bookings share that booking's (package, booking_date).
C15_ApprovedRepresentativeOnly ==
    resp.op = "load_from_db" =>
        IF resp.name \in DOMAIN store /\ Approved(resp.name)
        THEN resp.status = "returned"
        ELSE resp.status = "raised" /\ resp.kind = "NotFound" /\ resp.data = EmptyData

\* A booking that is not Approved is asked for as a trip while an Approved
\* booking has its package and date: NotFound.
C15_Witness ==
    /\ resp.op = "load_from_db"
    /\ resp.kind = "NotFound"
    /\ resp.name \in DOMAIN store
    /\ ~Approved(resp.name)
    /\ ApprovedOf(KeyOf(resp.name)) # {}

(***************************************************************************)
(* Frame and interleaving claims, under SpecConc.                          *)
(***************************************************************************)
\* C16: a successful finalize changes the status of the booking it names
\* and nothing else of it; a successful updateManifest changes the
\* participants of the booking it names, to the list passed, and nothing
\* else of it; neither changes another booking, adds one or removes one.
C16_Step ==
    (resp'.status = "success" /\ resp'.op \in {"finalize", "update_manifest"}) =>
        LET n == resp'.name
        IN  /\ n \in DOMAIN store
            /\ DOMAIN store' = DOMAIN store
            /\ \A m \in DOMAIN store : m # n => store'[m] = store[m]
            /\ resp'.op = "finalize" =>
                    store' = [store EXCEPT ![n].status = "Pending"]
            /\ resp'.op = "update_manifest" =>
                    /\ store' = [store EXCEPT ![n].participants = store'[n].participants]
                    /\ FullNames(store'[n].participants) = args'.val

C16_OwnFieldOnly == [][C16_Step]_vars

\* A manifest was saved while another booking is stored and the booking it
\* names has been finalized: the roster is the one passed, the status stays.
C16_Witness ==
    /\ resp.op = "update_manifest"
    /\ resp.status = "success"
    /\ Cardinality(DOMAIN store) = 2
    /\ store[resp.name].participants # <<>>
    /\ store[resp.name].status = "Pending"

\* Created, then Pending, then Approved or Rejected
Rank(status) ==
    CASE status = "Created" -> 1
      [] status = "Pending" -> 2
      [] OTHER -> 3

\* C17: whatever the interleaving of updateManifest, finalize and the
\* approval of one booking, its status never moves back (Pending to Created,
\* Approved or Rejected to anything else), and a booking whose finalize has
\* succeeded is never Created again.
C17_Step ==
    \A n \in DOMAIN store :
        /\ n \in DOMAIN store'
        /\ Rank(store'[n].status) >= Rank(store[n].status)
        /\ Rank(store[n].status) = 3 => store'[n].status = store[n].status
        /\ finalized'[n] >= 1 => store'[n].status # "Created"

C17_StatusMonotonic == [][C17_Step]_vars

\* An updateManifest that loaded the booking before its finalize was
\* committed comes to save after it: the save is refused and the booking is
\* still finalized.
C17_Witness ==
    /\ resp.op = "update_manifest"
    /\ resp.kind = "TimestampMismatch"
    /\ finalized[resp.name] = 1
    /\ store[resp.name].status # "Created"

(***************************************************************************)
(* More Scheduled Trips claims, under SpecTrips.                           *)
(***************************************************************************)
\* The rows of a list of a loaded trip, without their display index
Items(rows) == {rows[i].item : i \in 1..Len(rows)}

\* Two loaded trips that differ in nothing but their name and the order of
\* their rows
SameTrip(t, u) ==
    /\ t.package = u.package
    /\ t.booking_date = u.booking_date
    /\ t.capacity = u.capacity
    /\ t.quantity = u.quantity
    /\ Items(t.bookings) = Items(u.bookings) /\ Len(t.bookings) = Len(u.bookings)
    /\ Items(t.participants) = Items(u.participants)
    /\ Len(t.participants) = Len(u.participants)
    /\ Items(t.variation_quantity) = Items(u.variation_quantity)
    /\ Len(t.variation_quantity) = Len(u.variation_quantity)

\* C18: two Approved bookings of one (package, booking_date), loaded as trips
\* one after the other from the same store, give the same package,
\* booking_date, capacity, quantity, bookings, participants and variation
\* totals; only the name of the trip differs.
C18_Step ==
    (/\ resp.op = "load_from_db" /\ resp.status = "returned"
     /\ resp'.op = "load_from_db" /\ resp'.status = "returned"
     /\ resp.name # resp'.name
     /\ KeyOf(resp.name) = KeyOf(resp'.name)) =>
        /\ SameTrip(resp.data, resp'.data)
        /\ resp.data.name = resp.name
        /\ resp'.data.name = resp'.name

C18_AnyRepresentative == [][C18_Step]_vars

\* The second of two Approved bookings of a trip is loaded: the trip holds
\* both bookings and the participant of the first.
C18_Witness ==
    /\ resp.op = "load_from_db"
    /\ resp.status = "returned"
    /\ resp.name = 2
    /\ Len(resp.data.bookings) = 2
    /\ \E i \in 1..Len(resp.data.participants) : resp.data.participants[i].item.parent = 1

\* C19: two rows of an unpaginated listTrips result that belong to different
\* (package, booking_date) carry different ids, also when their packages
\* share a display name.
C19_IdIdentifiesGroup ==
    (resp.op = "get_list" /\ Unpaginated(args)) =>
        \A i, j \in 1..Len(resp.data.rows) :
            RowKey(resp.data.rows[i]) # RowKey(resp.data.rows[j]) =>
                resp.data.rows[i].id # resp.data.rows[j].id

====
